---- MODULE Spec2Model ----
(***************************************************************************)
(* The Perhaps container of pyeither_demo.ipynb (and of the README's       *)
(* "Intuition for Either" section): a frozen attrs class with the fields   *)
(* value and success, the constructors succeed / fail, the methods inside, *)
(* collapse and and_then, and the boundary function attempt.               *)
(*                                                                         *)
(* A Python value is a chain of nested Perhaps instances ending in a plain *)
(* object.  It is written as a record                                      *)
(*     [tags |-> the success fields, outermost first,                      *)
(*      type |-> the Python type of the innermost plain object,            *)
(*      n    |-> that object's integer content (0 when it has none),       *)
(*      s    |-> that object's text (a str's content, an exception's       *)
(*               message; "" when it has none)]                            *)
(* so that Perhaps(v, s) is v with s put in front of its tags, and attrs'  *)
(* generated __eq__ (field by field) is equality of these records.         *)
(*                                                                         *)
(* An expression is evaluated on a machine record                          *)
(*     [acc |-> the value computed so far (or the exception in flight),    *)
(*      raised |-> whether an exception is propagating,                    *)
(*      calls |-> the log of the calls made to named functions,            *)
(*      impl |-> which definition of the class is bound to Perhaps:        *)
(*               the notebook's final cell or the README's final listing]  *)
(*                                                                         *)
(* Three specifications share the variables:                               *)
(*   Spec      expressions built from succeed, inside, collapse, and_then, *)
(*             the failure property and attempt, over small integers;      *)
(*   SpecPipe  the process(path) pipelines of the notebook and the README  *)
(*             (prog), run on a path whose file is in the state fs;        *)
(*   SpecHeap  the same methods with every instance an object in heap, to  *)
(*             tell a new instance from a changed one.                     *)
(***************************************************************************)
EXTENDS Integers, Sequences, FiniteSets, TLC

\* Payload integers a chain may start from: 0..MaxInt.
MaxInt == 2
\* Number of operations applied in one expression.
MaxOps == 3

VARIABLES acc, raised, calls, ops, x0, impl, prog, fs, heap

vars == <<acc, raised, calls, ops, x0, impl, prog, fs, heap>>

----------------------------------------------------------------------------
\* Python objects

PyObj(type, n) == [tags |-> <<>>, type |-> type, n |-> n, s |-> ""]

None == PyObj("NoneType", 0)

PyInt(n) == PyObj("int", n)

PyBool(b) == PyObj("bool", IF b THEN 1 ELSE 0)

PyStr(text) == [PyObj("str", 0) EXCEPT !.s = text]

\* An exception instance of class `type`.
PyExc(type) == PyObj(type, 0)

\* attrs-generated __init__ of Perhaps: fields value, success.
Perhaps(v, s) == [v EXCEPT !.tags = <<s>> \o v.tags]

IsPerhaps(x) == x.tags # <<>>

\* Attribute reads self.success and self.value.
success(p) == Head(p.tags)

value(p) == [p EXCEPT !.tags = Tail(p.tags)]

fail == Perhaps(None, FALSE)

succeed(v) == Perhaps(v, TRUE)

\* A plain int (bool is not modelled).
IsInt(x) == x.tags = <<>> /\ x.type = "int"

----------------------------------------------------------------------------
\* The outcome of running a function body: a return value or a raised exception.

Return(v) == [raised |-> FALSE, val |-> v]

Throw(type) == [raised |-> TRUE, val |-> PyExc(type)]

\* identity with its return statement forgotten.
identity_noReturn(v) == Return(None)

identity(v) == Return(v)

\* n * 10; the operand types int supports only.
times_10(v) == IF IsInt(v) THEN Return(PyInt(v.n * 10)) ELSE Throw("TypeError")

\* n % 2 == 0 ? succeed(n) : fail
even(v) ==
    IF IsInt(v)
    THEN IF v.n % 2 = 0 THEN Return(succeed(v)) ELSE Return(fail)
    ELSE Throw("TypeError")

always_succeed(v) == Return(succeed(v))

always_fail(v) == Return(fail)

ThrowMsg(type, msg) == [raised |-> TRUE, val |-> [PyExc(type) EXCEPT !.s = msg]]

\* The file at the path being processed: absent, a well-formed document, a
\* malformed document, or a file that cannot be opened for reading.
FileStates == {"absent", "valid", "invalid", "unreadable"}

\* The two sample documents the notebook writes.
ValidYaml == "---\nname: mkbernard\nage: 30\n"

InvalidYaml == "---\n  name: mkbernard\nage: 30\n"

\* str() of the error yaml.safe_load raises on the malformed document (its
\* first line).
YamlErrorText == "expected '<document start>', but found '<block mapping start>'"

\* The mapping yaml.safe_load returns for the well-formed document.
Config == [PyObj("dict", 0) EXCEPT !.s = "{'name': 'mkbernard', 'age': 30}"]

\* Person(name='mkbernard', age=30)
Person == [PyObj("Person", 30) EXCEPT !.s = "mkbernard"]

IsStr(x) == x.tags = <<>> /\ x.type = "str"

Truthy(x) == x.tags = <<>> /\ x.type = "bool" /\ x.n = 1

\* os.path.isfile(path) / os.path.exists(path)
isfile(v) ==
    IF IsStr(v) THEN Return(PyBool(fs \in {"valid", "invalid", "unreadable"}))
    ELSE Throw("TypeError")

\* open(path).read()
open_read(v) ==
    IF ~IsStr(v) THEN Throw("TypeError")
    ELSE CASE fs = "valid" -> Return(PyStr(ValidYaml))
           [] fs = "invalid" -> Return(PyStr(InvalidYaml))
           [] fs = "unreadable" -> Throw("PermissionError")
           [] OTHER -> Throw("FileNotFoundError")

\* yaml.safe_load(content)
safe_load(v) ==
    IF ~IsStr(v) THEN Throw("AttributeError")
    ELSE IF v.s = ValidYaml THEN Return(Config)
    ELSE IF v.s = InvalidYaml THEN ThrowMsg("YAMLError", YamlErrorText)
    ELSE Return(v)

\* Person.from_config(config): config["name"], config["age"]
from_config(v) == IF v = Config THEN Return(Person) ELSE Throw("TypeError")

\* json.load(p) on a path string: p has no read().
json_load(v) == Throw("AttributeError")

\* The named functions handed to inside / and_then / attempt.
PlainFns == {"identity", "times_10"}

PerhapsFns == {"even", "succeed", "always_fail"}

FnNames == PlainFns \cup PerhapsFns

Body(f, v) ==
    CASE f = "identity" -> identity(v)
      [] f = "times_10" -> times_10(v)
      [] f = "even" -> even(v)
      [] f = "succeed" -> always_succeed(v)
      [] f = "always_fail" -> always_fail(v)
      [] f \in {"isfile", "exists"} -> isfile(v)
      [] f = "open_read" -> open_read(v)
      [] f = "safe_load" -> safe_load(v)
      [] f = "from_config" -> from_config(v)
      [] f = "json_load" -> json_load(v)

\* Function objects: a def, lambda x: g(f(x)), or lambda v: f(v).and_then(g).
Def(f) == [kind |-> "def", f |-> f, g |-> f]

Compose(f, g) == [kind |-> "compose", f |-> f, g |-> g]

Kleisli(f, g) == [kind |-> "kleisli", f |-> f, g |-> g]

----------------------------------------------------------------------------
\* Evaluation

Impls == {"notebook", "readme"}

Machine(v, i) == [acc |-> v, raised |-> FALSE, calls |-> <<>>, impl |-> i]

Raise(m, type) == [m EXCEPT !.acc = PyExc(type), !.raised = TRUE]

\* The machine after the call f(m.acc) had the outcome r, logged.
Called(f, m, r) ==
    [m EXCEPT !.acc = r.val, !.raised = r.raised,
              !.calls = Append(m.calls,
                 [fn |-> f, arg |-> m.acc, raised |-> r.raised, ret |-> r.val])]

\* A call f(m.acc) of a named function.
Call(f, m) == Called(f, m, Body(f, m.acc))

\* A call f(m.acc) during which the interpreter raises the asynchronous
\* condition sig (KeyboardInterrupt) at the call site.
Interrupted(f, m, sig) ==
    [m EXCEPT !.acc = PyExc(sig), !.raised = TRUE,
              !.calls = Append(m.calls,
                 [fn |-> f, arg |-> m.acc, raised |-> TRUE, ret |-> PyExc(sig)])]

\* The classes a bare `except:` clause catches: every BaseException.
ExceptionClasses ==
    {"TypeError", "AttributeError", "NameError", "YAMLError",
     "FileNotFoundError", "PermissionError"}

Signals == {"KeyboardInterrupt"}

BareExcept(type) == type \in ExceptionClasses \cup Signals

\* succeed(<call>), r the machine after the call was made.
Lift(r) == IF r.raised THEN r ELSE [r EXCEPT !.acc = succeed(r.acc)]

\* try: return succeed(<call>)  except: return fail
Caught(r) ==
    IF r.raised
    THEN IF BareExcept(r.acc.type)
         THEN [r EXCEPT !.acc = fail, !.raised = FALSE]
         ELSE r
    ELSE [r EXCEPT !.acc = succeed(r.acc)]

\* except: return Perhaps(<the exception>, False)
CaughtCarried(r) ==
    IF r.raised
    THEN [r EXCEPT !.acc = Perhaps(r.acc, FALSE), !.raised = FALSE]
    ELSE [r EXCEPT !.acc = succeed(r.acc)]

\* attempt returning a Failure that carries the exception.
attempt_carry(m, f, sig) ==
    CaughtCarried(IF sig = "none" THEN Call(f, m) ELSE Interrupted(f, m, sig))

\* attempt whose except clause re-raises.
attempt_reraise(m, f, sig) ==
    Lift(IF sig = "none" THEN Call(f, m) ELSE Interrupted(f, m, sig))

\* attempt(f, m.acc), with sig the condition delivered during the call
\* ("none": the call runs undisturbed).
attempt(m, f, sig) ==
    Caught(IF sig = "none" THEN Call(f, m) ELSE Interrupted(f, m, sig))

----------------------------------------------------------------------------
\* The either library (its source is not among the repository's files).

Right(v) == [v EXCEPT !.tags = <<TRUE>> \o v.tags]

Left(e) == [e EXCEPT !.tags = <<FALSE>> \o e.tags]

\* either.should(cond, v, err)
should(cond, v, err) == IF cond THEN Right(v) ELSE Left(err)

\* either.should(<test>, v, err), t the machine after the test was called.
should_after(t, v, err) ==
    IF t.raised THEN t ELSE [t EXCEPT !.acc = should(Truthy(t.acc), v, err)]

\* either.predicate(test, errVal)(m.acc)
predicate(test, errVal, m) == should_after(Call(test, m), m.acc, PyStr(errVal))

\* either.succeed(<call>), r the machine after the call was made.
either_succeed(r) == IF r.raised THEN r ELSE [r EXCEPT !.acc = Right(r.acc)]

\* either.attempt, r the machine after the call f(x) was made.
either_attempted(r) ==
    IF r.raised
    THEN [r EXCEPT !.acc = Left(r.acc), !.raised = FALSE]
    ELSE [r EXCEPT !.acc = Right(r.acc)]

\* either.attempt(f, m.acc)
either_attempt(m, f) == either_attempted(Call(f, m))

\* either.lmap(lambda e: prefix + str(e), m.acc)
lmap(prefix, m) ==
    IF m.raised THEN m
    ELSE IF IsPerhaps(m.acc) /\ ~success(m.acc)
         THEN [m EXCEPT !.acc = Left(PyStr(prefix \o value(m.acc).s))]
         ELSE m

----------------------------------------------------------------------------
\* The step functions of the demonstration pipelines.

\* `yes if <test> else no`, t the machine after the test was called.
IfElse(t, yes, no) ==
    IF t.raised THEN t ELSE [t EXCEPT !.acc = IF Truthy(t.acc) THEN yes ELSE no]

\* try: return <call>  except: return fail
TryOrFail(r) ==
    IF r.raised /\ BareExcept(r.acc.type)
    THEN [r EXCEPT !.acc = fail, !.raised = FALSE]
    ELSE r

\* ensure_path that skips the test.
ensure_path_noTest(m) == [m EXCEPT !.acc = succeed(m.acc)]

\* notebook, Perhaps pipeline
ensure_path(m) == IfElse(Call("isfile", m), succeed(m.acc), fail)

read_content(m) == Lift(Call("open_read", m))

parse_yaml(m) == attempt(m, "safe_load", "none")

load_person(m) == attempt(m, "from_config", "none")

\* ensure_path with the value and the error swapped.
ensure_path_either_swapped(m) ==
    should_after(Call("isfile", m), PyStr("is not a valid file"), m.acc)

\* notebook, either pipeline
ensure_path_either(m) ==
    should_after(Call("isfile", m), m.acc, PyStr("is not a valid file"))

read_content_either(m) == either_succeed(Call("open_read", m))

\* parse_yaml calling yaml.safe_load outside either.attempt.
parse_yaml_either_bare(m) == either_succeed(Call("safe_load", m))

parse_yaml_either(m) == lmap("invalid yaml: ", either_attempt(m, "safe_load"))

load_person_either(m) == lmap("invalid user config: ", either_attempt(m, "from_config"))

\* README, Perhaps pipeline
ensure_path_readme(m) == IfElse(Call("exists", m), succeed(m.acc), fail)

read_file(m) == TryOrFail(Call("open_read", m))

parse_content(m) == TryOrFail(Call("safe_load", m))

\* README, either example
ensure_path_predicate(m) == predicate("isfile", "not a file", m)

load_file(m) == either_attempt(m, "json_load")

StepNames ==
    {"ensure_path", "read_content", "parse_yaml", "load_person",
     "ensure_path_either", "read_content_either", "parse_yaml_either",
     "load_person_either", "ensure_path_readme", "read_file", "parse_content",
     "ensure_path_predicate", "load_file"}

StepBody(name, m) ==
    CASE name = "ensure_path" -> ensure_path(m)
      [] name = "read_content" -> read_content(m)
      [] name = "parse_yaml" -> parse_yaml(m)
      [] name = "load_person" -> load_person(m)
      [] name = "ensure_path_either" -> ensure_path_either(m)
      [] name = "read_content_either" -> read_content_either(m)
      [] name = "parse_yaml_either" -> parse_yaml_either(m)
      [] name = "load_person_either" -> load_person_either(m)
      [] name = "ensure_path_readme" -> ensure_path_readme(m)
      [] name = "read_file" -> read_file(m)
      [] name = "parse_content" -> parse_content(m)
      [] name = "ensure_path_predicate" -> ensure_path_predicate(m)
      [] name = "load_file" -> load_file(m)

\* The machine r after the step function returned or raised, logged.
Logged(name, arg, r) ==
    [r EXCEPT !.calls = Append(r.calls,
        [fn |-> name, arg |-> arg, raised |-> r.raised, ret |-> r.acc])]

\* A call of a step function on m.acc.
RunStep(name, m) == Logged(name, m.acc, StepBody(name, m))

StepFn(name) == [kind |-> "step", f |-> name, g |-> name]

\* either.kleisli(f, g)
kleisli(f, g) == [kind |-> "kleisli_either", f |-> f, g |-> g]

RECURSIVE Invoke(_, _)

\* inside calling f before it tests self.success.
inside_eager(m, fn) ==
    IF m.raised THEN m
    ELSE IF ~IsPerhaps(m.acc) THEN Raise(m, "AttributeError")
    ELSE LET r == Invoke(fn, [m EXCEPT !.acc = value(m.acc)])
         IN  IF r.raised THEN r
             ELSE IF success(m.acc) THEN [r EXCEPT !.acc = succeed(r.acc)]
             ELSE [r EXCEPT !.acc = fail]

\* inside returning f(self.value) without lifting it with succeed.
inside_noLift(m, fn) ==
    IF m.raised THEN m
    ELSE IF ~IsPerhaps(m.acc) THEN Raise(m, "AttributeError")
    ELSE IF success(m.acc)
         THEN Invoke(fn, [m EXCEPT !.acc = value(m.acc)])
         ELSE [m EXCEPT !.acc = fail]

\* inside that does not lift a result that is already a Perhaps.
inside_smart(m, fn) ==
    IF m.raised THEN m
    ELSE IF ~IsPerhaps(m.acc) THEN Raise(m, "AttributeError")
    ELSE IF success(m.acc)
         THEN LET r == Invoke(fn, [m EXCEPT !.acc = value(m.acc)])
              IN  IF r.raised \/ IsPerhaps(r.acc) THEN r
                  ELSE [r EXCEPT !.acc = succeed(r.acc)]
         ELSE [m EXCEPT !.acc = fail]

\* Perhaps.inside (the same in the notebook and the README).  A method call
\* on an expression that raised is never made: the exception propagates.
inside(m, fn) ==
    IF m.raised THEN m
    ELSE IF ~IsPerhaps(m.acc) THEN Raise(m, "AttributeError")
    ELSE IF success(m.acc)
         THEN Lift(Invoke(fn, [m EXCEPT !.acc = value(m.acc)]))
         ELSE [m EXCEPT !.acc = fail]

\* collapse returning self.value without testing self.success.
collapse_unchecked(m) ==
    IF m.raised THEN m
    ELSE IF ~IsPerhaps(m.acc) THEN Raise(m, "AttributeError")
    ELSE [m EXCEPT !.acc = value(m.acc)]

\* collapse removing two levels where there are two.
collapse_twice(m) ==
    IF m.raised THEN m
    ELSE IF ~IsPerhaps(m.acc) THEN Raise(m, "AttributeError")
    ELSE IF success(m.acc)
         THEN IF IsPerhaps(value(m.acc)) /\ success(value(m.acc))
                 /\ IsPerhaps(value(value(m.acc)))
              THEN [m EXCEPT !.acc = value(value(m.acc))]
              ELSE [m EXCEPT !.acc = value(m.acc)]
         ELSE [m EXCEPT !.acc = fail]

\* collapse that keeps self when the payload is not a Perhaps.
collapse_total(m) ==
    IF m.raised THEN m
    ELSE IF ~IsPerhaps(m.acc) THEN Raise(m, "AttributeError")
    ELSE IF success(m.acc)
         THEN IF IsPerhaps(value(m.acc)) THEN [m EXCEPT !.acc = value(m.acc)] ELSE m
         ELSE [m EXCEPT !.acc = fail]

\* Perhaps.collapse, notebook
collapse(m) ==
    IF m.raised THEN m
    ELSE IF ~IsPerhaps(m.acc) THEN Raise(m, "AttributeError")
    ELSE IF success(m.acc)
         THEN [m EXCEPT !.acc = value(m.acc)]
         ELSE [m EXCEPT !.acc = fail]

\* and_then that forgets to collapse.
and_then_noCollapse(m, fn) == inside(m, fn)

\* Perhaps.and_then, notebook
and_then(m, fn) == collapse(inside(m, fn))

\* and_then lifting what f returned once more.
and_then_readme_lift(m, fn) == inside(m, fn)

\* Perhaps.and_then, README final listing
and_then_readme(m, fn) ==
    IF m.raised THEN m
    ELSE IF ~IsPerhaps(m.acc) THEN Raise(m, "AttributeError")
    ELSE IF success(m.acc)
         THEN Invoke(fn, [m EXCEPT !.acc = value(m.acc)])
         ELSE [m EXCEPT !.acc = fail]

\* Perhaps.collapse, README final listing
collapse_readme(m) == and_then_readme(m, Def("identity"))

\* Perhaps.failure, notebook: `return not success` reads a global name that
\* no cell binds.
failure(m) ==
    IF m.raised THEN m
    ELSE IF ~IsPerhaps(m.acc) THEN Raise(m, "AttributeError")
    ELSE Raise(m, "NameError")

\* Perhaps.failure, README: `return not self.success`
failure_readme(m) ==
    IF m.raised THEN m
    ELSE IF ~IsPerhaps(m.acc) THEN Raise(m, "AttributeError")
    ELSE [m EXCEPT !.acc = PyBool(~success(m.acc))]

\* Method lookup on the class that is bound to Perhaps.
Failure(m) == IF m.impl = "readme" THEN failure_readme(m) ELSE failure(m)

Collapse(m) == IF m.impl = "readme" THEN collapse_readme(m) ELSE collapse(m)

AndThen(m, fn) == IF m.impl = "readme" THEN and_then_readme(m, fn) ELSE and_then(m, fn)

\* either's bind
bind(m, fn) ==
    IF m.raised THEN m
    ELSE IF ~IsPerhaps(m.acc) THEN Raise(m, "AttributeError")
    ELSE IF success(m.acc)
         THEN Invoke(fn, [m EXCEPT !.acc = value(m.acc)])
         ELSE m

Invoke(fn, m) ==
    CASE fn.kind = "def" -> Call(fn.f, m)
      [] fn.kind = "step" -> RunStep(fn.f, m)
      [] fn.kind = "kleisli_either" -> bind(RunStep(fn.f, m), StepFn(fn.g))
      [] fn.kind = "compose" ->
            LET a == Call(fn.f, m)
            IN  IF a.raised THEN a ELSE Call(fn.g, a)
      [] fn.kind = "kleisli" -> AndThen(Call(fn.f, m), Def(fn.g))

----------------------------------------------------------------------------
\* The steps of an expression

StartValues == {PyInt(n) : n \in 0..MaxInt} \cup {fail}

Init ==
    /\ acc \in StartValues
    /\ x0 = acc
    /\ impl \in Impls
    /\ raised = FALSE
    /\ calls = <<>>
    /\ ops = <<>>
    /\ prog = "expression"
    /\ fs = "none"
    /\ heap = <<>>

Now == [acc |-> acc, raised |-> raised, calls |-> calls, impl |-> impl]

\* Record the operation applied and install its outcome.
Step(op, fn, sig, m) ==
    /\ acc' = m.acc
    /\ raised' = m.raised
    /\ calls' = m.calls
    /\ ops' = Append(ops, [op |-> op, fn |-> fn, sig |-> sig,
                           self |-> acc, ncalls |-> Len(calls)])
    /\ UNCHANGED <<x0, impl, prog, fs, heap>>

CanStep == ~raised /\ Len(ops) < MaxOps

Succeed ==
    /\ CanStep
    /\ Step("succeed", "", "none", [Now EXCEPT !.acc = succeed(acc)])

InsideStep ==
    /\ CanStep
    /\ \E f \in FnNames : Step("inside", f, "none", inside(Now, Def(f)))

CollapseStep ==
    /\ CanStep
    /\ Step("collapse", "", "none", Collapse(Now))

AndThenStep ==
    /\ CanStep
    /\ \E f \in FnNames : Step("and_then", f, "none", AndThen(Now, Def(f)))

\* A read of the property: x.failure
FailureStep ==
    /\ CanStep
    /\ Step("failure", "", "none", Failure(Now))

\* attempt(f, x) on the raw value the expression starts from.
AttemptStep ==
    /\ CanStep
    /\ ops = <<>>
    /\ \E f \in FnNames, sig \in {"none"} \cup Signals :
          Step("attempt", f, sig, attempt(Now, f, sig))

Next ==
    Succeed \/ InsideStep \/ CollapseStep \/ AndThenStep \/ AttemptStep \/ FailureStep

Spec == Init /\ [][Next]_vars

----------------------------------------------------------------------------
\* The demonstration pipelines: process(path)

Programs ==
    {"process_inside_collapse", "process_and_then", "process_either",
     "readme_process_inside_collapse", "readme_process_and_then",
     "readme_bind", "readme_kleisli"}

Paths == {PyStr("example.yaml"), PyStr("example_invalid.yaml"), PyStr("not a path")}

Op(op, name) == [op |-> op, fn |-> StepFn(name)]

\* process with the two functions handed to kleisli in the other order.
readme_kleisli_process_swapped == kleisli("load_file", "ensure_path_predicate")

\* process = either.kleisli(ensure_path, load_file)
readme_kleisli_process == kleisli("ensure_path_predicate", "load_file")

\* The method calls of each process(path), in evaluation order.  either's
\* chained() / unchain() only switch the calling syntax and are left out.
Code(p) ==
    CASE p = "process_inside_collapse" ->
            << Op("succeed", ""),
               Op("inside", "ensure_path"), Op("collapse", ""),
               Op("inside", "read_content"), Op("collapse", ""),
               Op("inside", "parse_yaml"), Op("collapse", ""),
               Op("inside", "load_person"), Op("collapse", "") >>
      [] p = "process_and_then" ->
            << Op("succeed", ""),
               Op("and_then", "ensure_path"), Op("and_then", "read_content"),
               Op("and_then", "parse_yaml"), Op("and_then", "load_person") >>
      [] p = "process_either" ->
            << Op("pure", ""),
               Op("bind", "ensure_path_either"), Op("bind", "read_content_either"),
               Op("bind", "parse_yaml_either"), Op("bind", "load_person_either") >>
      [] p = "readme_process_inside_collapse" ->
            << Op("succeed", ""),
               Op("inside", "ensure_path_readme"), Op("collapse", ""),
               Op("inside", "read_file"), Op("collapse", ""),
               Op("inside", "parse_content"), Op("collapse", "") >>
      [] p = "readme_process_and_then" ->
            << Op("succeed", ""),
               Op("and_then", "ensure_path_readme"), Op("and_then", "read_file"),
               Op("and_then", "parse_content") >>
      [] p = "readme_bind" ->
            << Op("pure", ""),
               Op("bind", "ensure_path_predicate"), Op("bind", "load_file") >>
      [] p = "readme_kleisli" ->
            << Op("pure", ""),
               [op |-> "bind", fn |-> readme_kleisli_process] >>
      [] OTHER -> << >>

ImplsOf(p) ==
    IF p \in {"readme_process_inside_collapse", "readme_process_and_then"}
    THEN Impls ELSE {"notebook"}

InitPipe ==
    /\ prog \in Programs
    /\ fs \in FileStates
    /\ acc \in Paths
    /\ x0 = acc
    /\ impl \in ImplsOf(prog)
    /\ raised = FALSE
    /\ calls = <<>>
    /\ ops = <<>>
    /\ heap = <<>>

Finished == Len(ops) = Len(Code(prog))

PC == Code(prog)[Len(ops) + 1]

AtOp(op) == ~raised /\ ~Finished /\ PC.op = op

PipeSucceed ==
    /\ AtOp("succeed")
    /\ Step("succeed", "", "none", [Now EXCEPT !.acc = succeed(acc)])

PipePure ==
    /\ AtOp("pure")
    /\ Step("pure", "", "none", [Now EXCEPT !.acc = Right(acc)])

PipeInside ==
    /\ AtOp("inside")
    /\ Step("inside", PC.fn.f, "none", inside(Now, PC.fn))

PipeCollapse ==
    /\ AtOp("collapse")
    /\ Step("collapse", "", "none", Collapse(Now))

PipeAndThen ==
    /\ AtOp("and_then")
    /\ Step("and_then", PC.fn.f, "none", AndThen(Now, PC.fn))

PipeBind ==
    /\ AtOp("bind")
    /\ Step("bind", PC.fn.f, "none", bind(Now, PC.fn))

NextPipe ==
    PipeSucceed \/ PipePure \/ PipeInside \/ PipeCollapse \/ PipeAndThen \/ PipeBind

SpecPipe == InitPipe /\ [][NextPipe]_vars

\* The entries of the call log made by calls of the functions in S.
CallsOf(S) == {k \in 1..Len(calls) : calls[k].fn \in S}

----------------------------------------------------------------------------
\* Instances as objects: the fields of every Perhaps constructed so far.
\*
\* A payload or result is a slot [ref |-> the index in heap of the instance
\* it refers to (0 when it is a plain object), n |-> the plain object's
\* integer (-1 for None, 0 for a reference)].  heap[o] is the instance o,
\* [value |-> a slot, success |-> a boolean].

\* Number of operations applied to the instances.
MaxHeapOps == 3

Plain(n) == [ref |-> 0, n |-> n]

Ref(o) == [ref |-> o, n |-> 0]

\* fail = Perhaps(None, False), the first instance constructed.
FailRef == Ref(1)

FailObj == [value |-> Plain(-1), success |-> FALSE]

HeapNow == [heap |-> heap, acc |-> acc, raised |-> raised]

HeapRaise(hm) == [hm EXCEPT !.raised = TRUE]

\* succeed(hm.acc): Perhaps(v, True) constructs a new instance.
succeed_heap(hm) ==
    IF hm.raised THEN hm
    ELSE [hm EXCEPT !.heap = Append(hm.heap, [value |-> hm.acc, success |-> TRUE]),
                    !.acc = Ref(Len(hm.heap) + 1)]

\* f(hm.acc) for the named functions; arithmetic on a Perhaps raises.
CallHeap(f, hm) ==
    CASE f = "identity" -> hm
      [] f = "times_10" ->
            IF hm.acc.ref = 0 /\ hm.acc.n >= 0
            THEN [hm EXCEPT !.acc = Plain(hm.acc.n * 10)] ELSE HeapRaise(hm)
      [] f = "even" ->
            IF hm.acc.ref = 0 /\ hm.acc.n >= 0
            THEN IF hm.acc.n % 2 = 0 THEN succeed_heap(hm) ELSE [hm EXCEPT !.acc = FailRef]
            ELSE HeapRaise(hm)
      [] f = "succeed" -> succeed_heap(hm)

HeapFns == {"identity", "times_10", "even", "succeed"}

\* inside that stores the result in self and returns self.
inside_heap_inplace(hm, self, f) ==
    IF hm.heap[self].success
    THEN IF CallHeap(f, [hm EXCEPT !.acc = hm.heap[self].value]).raised
         THEN CallHeap(f, [hm EXCEPT !.acc = hm.heap[self].value])
         ELSE [CallHeap(f, [hm EXCEPT !.acc = hm.heap[self].value])
                  EXCEPT !.heap[self].value =
                            CallHeap(f, [hm EXCEPT !.acc = hm.heap[self].value]).acc,
                         !.acc = Ref(self)]
    ELSE [hm EXCEPT !.acc = FailRef]

\* Perhaps.inside on the instance self
inside_heap(hm, self, f) ==
    IF hm.heap[self].success
    THEN succeed_heap(CallHeap(f, [hm EXCEPT !.acc = hm.heap[self].value]))
    ELSE [hm EXCEPT !.acc = FailRef]

\* Perhaps.collapse on the instance hm.acc refers to
collapse_heap(hm) ==
    IF hm.raised THEN hm
    ELSE IF hm.heap[hm.acc.ref].success
         THEN [hm EXCEPT !.acc = hm.heap[hm.acc.ref].value]
         ELSE [hm EXCEPT !.acc = FailRef]

\* Perhaps.and_then on the instance self
and_then_heap(hm, self, f) == collapse_heap(inside_heap(hm, self, f))

InitHeap ==
    /\ heap = <<FailObj>>
    /\ acc = FailRef
    /\ x0 = acc
    /\ raised = FALSE
    /\ calls = <<>>
    /\ ops = <<>>
    /\ impl = "notebook"
    /\ prog = "instances"
    /\ fs = "none"

\* Record the operation applied to the instance self and install its outcome.
HeapStep(op, fn, self, hm) ==
    /\ heap' = hm.heap
    /\ acc' = hm.acc
    /\ raised' = hm.raised
    /\ ops' = Append(ops, [op |-> op, fn |-> fn, self |-> self])
    /\ UNCHANGED <<calls, x0, impl, prog, fs>>

CanHeapStep == ~raised /\ Len(ops) < MaxHeapOps

Instances == 1..Len(heap)

\* succeed(v) for an integer or for an instance constructed before.
HeapSucceed ==
    /\ CanHeapStep
    /\ \E v \in {Plain(n) : n \in 0..MaxInt} \cup {Ref(o) : o \in Instances} :
          HeapStep("succeed", "", 0, succeed_heap([HeapNow EXCEPT !.acc = v]))

HeapInside ==
    /\ CanHeapStep
    /\ \E self \in Instances, f \in HeapFns :
          HeapStep("inside", f, self, inside_heap(HeapNow, self, f))

HeapCollapse ==
    /\ CanHeapStep
    /\ \E self \in Instances :
          HeapStep("collapse", "", self, collapse_heap([HeapNow EXCEPT !.acc = Ref(self)]))

HeapAndThen ==
    /\ CanHeapStep
    /\ \E self \in Instances, f \in HeapFns :
          HeapStep("and_then", f, self, and_then_heap(HeapNow, self, f))

NextHeap == HeapSucceed \/ HeapInside \/ HeapCollapse \/ HeapAndThen

SpecHeap == InitHeap /\ [][NextHeap]_vars

----------------------------------------------------------------------------
\* What the i-th operation of the expression returned.

ResultAcc(i) == IF i < Len(ops) THEN ops[i + 1].self ELSE acc

CallsAfter(i) == IF i < Len(ops) THEN ops[i + 1].ncalls ELSE Len(calls)

RaisedAfter(i) == i = Len(ops) /\ raised

Here(v) == Machine(v, impl)

----------------------------------------------------------------------------
\* C1: fail.inside(f) and fail.and_then(f) return a value equal to fail and
\* never invoke f: every inside / and_then applied to fail in the expression
\* left the call log as it was and returned fail, and so does every f.
C1_ShortCircuit ==
    /\ \A i \in 1..Len(ops) :
          (ops[i].op \in {"inside", "and_then"} /\ ops[i].self = fail)
             => /\ ~RaisedAfter(i)
                /\ ResultAcc(i) = fail
                /\ CallsAfter(i) = ops[i].ncalls
    /\ \A f \in FnNames :
          /\ inside(Here(fail), Def(f)) = Here(fail)
          /\ AndThen(Here(fail), Def(f)) = Here(fail)

C1_Witness ==
    /\ \E i, j \in 1..Len(ops) :
          /\ ops[i].op = "inside" /\ ops[i].self = fail
          /\ ops[j].op = "and_then" /\ ops[j].self = fail
    /\ acc = fail
    /\ calls = <<>>

\* C2: in succeed(x).and_then(s1)...and_then(sn) with Perhaps-returning steps
\* the calls made are s1, s2, ... in order, each at most once; the first gets
\* x, each later one gets the payload of the Success its predecessor returned;
\* a step that returns Failure is the last one called and its Failure is the
\* value of the chain.
IsAndThenChain ==
    /\ Len(ops) >= 1
    /\ ops[1].op = "succeed"
    /\ \A i \in 2..Len(ops) : ops[i].op = "and_then" /\ ops[i].fn \in PerhapsFns

C2_PipelineOrder ==
    IsAndThenChain =>
      LET n == Len(ops) - 1
          k == Len(calls)
      IN  /\ k <= n
          /\ \A i \in 1..k : calls[i].fn = ops[i + 1].fn
          /\ k >= 1 => calls[1].arg = x0
          /\ n >= 1 => k >= 1
          /\ \A i \in 1..(k - 1) :
                /\ ~calls[i].raised
                /\ IsPerhaps(calls[i].ret) /\ success(calls[i].ret)
                /\ calls[i + 1].arg = value(calls[i].ret)
          /\ (~raised /\ n = 0) => acc = succeed(x0)
          /\ (~raised /\ n >= 1) =>
                /\ acc = calls[k].ret
                /\ k < n => (IsPerhaps(acc) /\ ~success(acc))

\* A chain of three steps that stopped after its second step failed.
C2_Witness ==
    /\ IsAndThenChain
    /\ Len(ops) = 3
    /\ Len(calls) = 1
    /\ ~raised
    /\ acc = fail
    /\ calls[1].ret = fail

\* A chain whose steps all ran, each on its predecessor's payload.
C2_WitnessAllRun ==
    /\ IsAndThenChain
    /\ Len(ops) = 3
    /\ Len(calls) = 2
    /\ ~raised
    /\ IsPerhaps(acc) /\ success(acc)

\* C3 (monad left identity): succeed(v).and_then(f) is what f(v) is, for the
\* value v at hand and every Perhaps-returning f: the same value or the same
\* exception, after the same single call of f.
C3_LeftIdentity ==
    ~raised =>
      \A f \in PerhapsFns :
         AndThen(Here(succeed(acc)), Def(f)) = Invoke(Def(f), Here(acc))

\* succeed(v).and_then(even) was evaluated and returned even(v) = fail.
C3_Witness ==
    /\ Len(ops) = 2
    /\ ops[1].op = "succeed"
    /\ ops[2].op = "and_then" /\ ops[2].fn = "even"
    /\ x0 = PyInt(1)
    /\ acc = fail
    /\ Len(calls) = 1

\* C4 (monad right identity): r.and_then(succeed) equals r for the Perhaps
\* value r at hand.
C4_RightIdentity ==
    (~raised /\ IsPerhaps(acc)) =>
       /\ ~AndThen(Here(acc), Def("succeed")).raised
       /\ AndThen(Here(acc), Def("succeed")).acc = acc

\* r.and_then(succeed) was evaluated on a nested Success and gave r back.
C4_Witness ==
    /\ Len(ops) = 3
    /\ ops[3].op = "and_then" /\ ops[3].fn = "succeed"
    /\ ops[3].self = succeed(succeed(PyInt(1)))
    /\ acc = ops[3].self

\* C5 (monad associativity): r.and_then(f).and_then(g) equals
\* r.and_then(lambda v: f(v).and_then(g)) for the Perhaps value r at hand and
\* all Perhaps-returning f, g: same value or exception, same calls.
C5_Associativity ==
    (~raised /\ IsPerhaps(acc)) =>
       \A f, g \in PerhapsFns :
          AndThen(AndThen(Here(acc), Def(f)), Def(g)) = AndThen(Here(acc), Kleisli(f, g))

\* r.and_then(even).and_then(succeed) was evaluated on r = Success(2).
C5_Witness ==
    /\ Len(ops) = 3
    /\ ops[1].op = "succeed" /\ x0 = PyInt(2)
    /\ ops[2].op = "and_then" /\ ops[2].fn = "even"
    /\ ops[3].op = "and_then" /\ ops[3].fn = "succeed"
    /\ acc = AndThen(Here(succeed(x0)), Kleisli("even", "succeed")).acc
    /\ acc = succeed(PyInt(2))

\* C6 (functor identity): r.inside(identity) equals r for the Perhaps value r
\* at hand.
C6_FunctorIdentity ==
    (~raised /\ IsPerhaps(acc)) =>
       /\ ~inside(Here(acc), Def("identity")).raised
       /\ inside(Here(acc), Def("identity")).acc = acc

\* r.inside(identity) was evaluated on Success(Failure) and on fail.
C6_Witness ==
    /\ Len(ops) = 2
    /\ ops[2].op = "inside" /\ ops[2].fn = "identity"
    /\ ops[2].self = succeed(fail)
    /\ acc = succeed(fail)

\* C7 (functor composition): r.inside(f).inside(g) equals
\* r.inside(lambda x: g(f(x))) for the Perhaps value r at hand and all f, g:
\* same value or exception, same calls.
C7_FunctorComposition ==
    (~raised /\ IsPerhaps(acc)) =>
       \A f, g \in FnNames :
          inside(inside(Here(acc), Def(f)), Def(g)) = inside(Here(acc), Compose(f, g))

\* succeed(2).inside(times_10).inside(times_10) was evaluated.
C7_Witness ==
    /\ Len(ops) = 3
    /\ ops[1].op = "succeed" /\ x0 = PyInt(2)
    /\ ops[2].op = "inside" /\ ops[2].fn = "times_10"
    /\ ops[3].op = "inside" /\ ops[3].fn = "times_10"
    /\ acc = inside(Here(succeed(x0)), Compose("times_10", "times_10")).acc
    /\ acc = succeed(PyInt(200))

\* C8: collapse removes exactly one level: on succeed(succeed(x)) it gives
\* succeed(x), on succeed(fail) and on fail it gives fail, and on
\* succeed(succeed(succeed(x))) it gives succeed(succeed(x)), not succeed(x);
\* and every collapse applied to a Success in the expression returned that
\* Success's value field.
C8_CollapseOneLevel ==
    /\ \A i \in 1..Len(ops) :
          (ops[i].op = "collapse" /\ IsPerhaps(ops[i].self))
             => /\ ~RaisedAfter(i)
                /\ ResultAcc(i) = IF success(ops[i].self)
                                  THEN value(ops[i].self) ELSE fail
    /\ ~raised =>
         /\ Collapse(Here(succeed(succeed(acc)))).acc = succeed(acc)
         /\ Collapse(Here(succeed(succeed(succeed(acc))))).acc = succeed(succeed(acc))
         /\ Collapse(Here(succeed(succeed(succeed(acc))))).acc # succeed(acc)
    /\ Collapse(Here(succeed(fail))).acc = fail
    /\ Collapse(Here(fail)).acc = fail

\* succeed(succeed(succeed(1))).collapse() was evaluated.
C8_Witness ==
    /\ Len(ops) = 3
    /\ ops[3].op = "collapse"
    /\ ops[3].self = succeed(succeed(succeed(PyInt(1))))
    /\ acc = succeed(succeed(PyInt(1)))

\* The call attempt wrapped: the one logged by the i-th operation.
WrappedCall(i) == calls[ops[i].ncalls + 1]

\* C9 as stated: attempt returns Success(v) when f returns v, and a Failure
\* carrying the raised error as its payload when f raises; nothing escapes.
C9_AttemptCarriesError ==
    \A i \in 1..Len(ops) :
       ops[i].op = "attempt" =>
          /\ ~RaisedAfter(i)
          /\ ~WrappedCall(i).raised => ResultAcc(i) = succeed(WrappedCall(i).ret)
          /\ WrappedCall(i).raised => ResultAcc(i) = Perhaps(WrappedCall(i).ret, FALSE)

\* C9, amended: attempt returns Success(v) when f returns v, and the shared
\* fail (value None: the error is dropped) when f raises; nothing escapes.
C9_AttemptReturnsFail ==
    \A i \in 1..Len(ops) :
       ops[i].op = "attempt" =>
          /\ ~RaisedAfter(i)
          /\ CallsAfter(i) = ops[i].ncalls + 1
          /\ WrappedCall(i).fn = ops[i].fn /\ WrappedCall(i).arg = ops[i].self
          /\ ~WrappedCall(i).raised => ResultAcc(i) = succeed(WrappedCall(i).ret)
          /\ WrappedCall(i).raised => ResultAcc(i) = fail /\ value(ResultAcc(i)) = None

\* attempt(times_10, fail): the call raised TypeError and attempt returned fail.
C9_Witness ==
    /\ Len(ops) = 1
    /\ ops[1].op = "attempt" /\ ops[1].sig = "none"
    /\ calls[1].raised /\ calls[1].ret = PyExc("TypeError")
    /\ acc = fail
    /\ ~raised

\* attempt(times_10, 2): the call returned 20 and attempt returned Success(20).
C9_WitnessSuccess ==
    /\ Len(ops) = 1
    /\ ops[1].op = "attempt" /\ ops[1].sig = "none"
    /\ ~calls[1].raised
    /\ acc = succeed(PyInt(20))

\* C10: a process-termination or interrupt condition raised in the wrapped
\* call is not turned into a Failure: it propagates out of attempt.
C10_FatalPropagates ==
    \A i \in 1..Len(ops) :
       (ops[i].op = "attempt" /\ ops[i].sig \in Signals) =>
          /\ RaisedAfter(i)
          /\ acc = PyExc(ops[i].sig)

\* C14: reading p.failure yields the negation of p.success, so exactly one
\* of the two holds for every Perhaps instance p.
C14_FailureIsNotSuccess ==
    \A i \in 1..Len(ops) :
       (ops[i].op = "failure" /\ IsPerhaps(ops[i].self)) =>
          /\ ~RaisedAfter(i)
          /\ ResultAcc(i) = PyBool(~success(ops[i].self))

\* Whether a call made during the i-th operation raised.
CallRaised(i) == \E k \in (ops[i].ncalls + 1)..CallsAfter(i) : calls[k].raised

IsMethodOnPerhaps(i, op) == ops[i].op = op /\ IsPerhaps(ops[i].self)

\* C16 as stated: on a Perhaps, inside, collapse and and_then each return a
\* Perhaps (when no function they call raises); in particular
\* succeed(v).collapse() is a Perhaps for every payload v.
C16_AlwaysPerhaps ==
    \A i \in 1..Len(ops) :
          (/\ ops[i].op \in {"inside", "collapse", "and_then"}
           /\ IsPerhaps(ops[i].self)
           /\ ~CallRaised(i))
             => (~RaisedAfter(i) /\ IsPerhaps(ResultAcc(i)))

\* C16, amended: inside returns a Perhaps whenever f returns; collapse
\* returns the payload of a Success as it is (fail for a Failure), a Perhaps
\* exactly when the payload is one; and_then returns what f returned for a
\* Success (fail for a Failure), a Perhaps exactly when f returned one; so
\* succeed(v).collapse() is v itself.
C16_PerhapsWhenPayloadIs ==
    /\ \A i \in 1..Len(ops) :
          /\ (IsMethodOnPerhaps(i, "inside") /\ ~CallRaised(i))
                => (~RaisedAfter(i) /\ IsPerhaps(ResultAcc(i)))
          /\ IsMethodOnPerhaps(i, "collapse")
                => /\ ~RaisedAfter(i)
                   /\ ResultAcc(i) = IF success(ops[i].self)
                                     THEN value(ops[i].self) ELSE fail
                   /\ IsPerhaps(ResultAcc(i))
                         <=> (~success(ops[i].self) \/ IsPerhaps(value(ops[i].self)))
          /\ (IsMethodOnPerhaps(i, "and_then") /\ ~CallRaised(i))
                => /\ ~RaisedAfter(i)
                   /\ ResultAcc(i) = IF success(ops[i].self)
                                     THEN WrappedCall(i).ret ELSE fail
    /\ ~raised =>
          /\ ~Collapse(Here(succeed(acc))).raised
          /\ Collapse(Here(succeed(acc))).acc = acc

\* succeed(1).collapse() was evaluated and returned the int 1.
C16_Witness ==
    /\ Len(ops) = 2
    /\ ops[1].op = "succeed" /\ x0 = PyInt(1)
    /\ ops[2].op = "collapse"
    /\ ~raised
    /\ acc = PyInt(1)
    /\ ~IsPerhaps(acc)

\* C19: succeed(v).inside(f) is a Success whose payload is exactly f(v), also
\* when f(v) is a Perhaps: succeed(2).inside(even) is Success(Success(2)) and
\* succeed(3).inside(even) is Success(Failure), not a bare Failure.
C19_InsideLiftsOnce ==
    /\ \A i \in 1..Len(ops) :
          (IsMethodOnPerhaps(i, "inside") /\ success(ops[i].self) /\ ~CallRaised(i))
             => /\ ~RaisedAfter(i)
                /\ CallsAfter(i) = ops[i].ncalls + 1
                /\ WrappedCall(i).fn = ops[i].fn
                /\ WrappedCall(i).arg = value(ops[i].self)
                /\ ResultAcc(i) = succeed(WrappedCall(i).ret)
    /\ inside(Here(succeed(PyInt(2))), Def("even")).acc = succeed(succeed(PyInt(2)))
    /\ inside(Here(succeed(PyInt(3))), Def("even")).acc = succeed(fail)
    /\ inside(Here(succeed(PyInt(3))), Def("even")).acc # fail

\* succeed(2).inside(even) was evaluated and is Success(Success(2)).
C19_Witness ==
    /\ Len(ops) = 2
    /\ ops[1].op = "succeed" /\ x0 = PyInt(2)
    /\ ops[2].op = "inside" /\ ops[2].fn = "even"
    /\ acc = succeed(succeed(PyInt(2)))

\* succeed(1).inside(even) was evaluated and is Success(Failure).
C19_WitnessFailure ==
    /\ Len(ops) = 2
    /\ ops[1].op = "succeed" /\ x0 = PyInt(1)
    /\ ops[2].op = "inside" /\ ops[2].fn = "even"
    /\ acc = succeed(fail)

\* C20: the two listings agree: and_then as inside(f).collapse() and and_then
\* as the direct branch give the same value or exception after the same calls
\* of f; collapse as the direct branch and collapse as and_then(identity) give
\* the same value or exception, the latter calling nothing but identity.
C20_ListingsAgree ==
    ~raised =>
       /\ \A f \in FnNames :
             and_then(Here(acc), Def(f)) = and_then_readme(Here(acc), Def(f))
       /\ collapse(Here(acc)).acc = collapse_readme(Here(acc)).acc
       /\ collapse(Here(acc)).raised = collapse_readme(Here(acc)).raised
       /\ collapse(Here(acc)).calls = <<>>
       /\ \A k \in 1..Len(collapse_readme(Here(acc)).calls) :
             collapse_readme(Here(acc)).calls[k].fn = "identity"

\* The README's and_then(even) ran on Success(1); the notebook's gives the
\* same Failure.
C20_Witness ==
    /\ impl = "readme"
    /\ Len(ops) = 2
    /\ ops[2].op = "and_then" /\ ops[2].fn = "even"
    /\ ops[2].self = succeed(PyInt(1))
    /\ acc = fail
    /\ and_then(Here(ops[2].self), Def("even")).acc = acc
    /\ Len(calls) = 1

----------------------------------------------------------------------------
\* The functions built from a boolean test: either.predicate(os.path.isfile,
\* "not a file") in the README and the two ensure_path of the notebook.
TestSteps == {"ensure_path_predicate", "ensure_path", "ensure_path_either"}

\* The Failure each of them gives when the test is false.
FailureOf(name) ==
    CASE name = "ensure_path_predicate" -> Left(PyStr("not a file"))
      [] name = "ensure_path_either" -> Left(PyStr("is not a valid file"))
      [] OTHER -> fail

\* C11: predicate(test, errVal) returns a function p such that p(x) is
\* Success(x), the payload being the unchanged argument, when test(x) is true
\* and Failure(errVal) when it is false, and test is evaluated exactly once
\* per call of p: every call of such a function in a pipeline is preceded by
\* one call of the test on the same argument and by no second one, it does
\* not raise, and every call of the test belongs to one such call.
C11_Predicate ==
    /\ \A k \in CallsOf(TestSteps) :
          /\ k > 1
          /\ calls[k - 1].fn = "isfile"
          /\ calls[k - 1].arg = calls[k].arg
          /\ k > 2 => calls[k - 2].fn \notin {"isfile", "exists"}
          /\ ~calls[k].raised
          /\ calls[k].ret = IF Truthy(calls[k - 1].ret)
                            THEN Right(calls[k].arg)
                            ELSE FailureOf(calls[k].fn)
    /\ \A j \in CallsOf({"isfile"}) :
          j < Len(calls) /\ calls[j + 1].fn \in TestSteps

\* The README's predicate was applied to a path that is not a file.
C11_Witness ==
    \E k \in CallsOf({"ensure_path_predicate"}) :
       /\ calls[k].arg = x0
       /\ calls[k - 1].ret = PyBool(FALSE)
       /\ calls[k].ret = Left(PyStr("not a file"))

\* The notebook's ensure_path was applied to the path of a file.
C11_WitnessTrue ==
    \E k \in CallsOf({"ensure_path"}) :
       /\ calls[k - 1].ret = PyBool(TRUE)
       /\ calls[k].ret = succeed(x0)

----------------------------------------------------------------------------
\* The notebook's three process(path).
NotebookPrograms == {"process_inside_collapse", "process_and_then", "process_either"}

\* The steps after ensure_path and the library calls they make.
AfterEnsurePath ==
    {"read_content", "parse_yaml", "load_person",
     "read_content_either", "parse_yaml_either", "load_person_either",
     "open_read", "safe_load", "from_config"}

\* The number of method calls after which ensure_path's result is the value
\* of the chain.
EnsuredAt(p) == IF p = "process_inside_collapse" THEN 3 ELSE 2

\* C12: scenario C: succeed(path).bind(ensure_path).bind(read_content)
\* .bind(parse_yaml).bind(load_person) on a nonexistent path stops at
\* ensure_path and returns Failure("is not a valid file") (the shared fail in
\* the Perhaps pipelines, which carry no payload); read_content, parse_yaml
\* and load_person are never invoked and no exception is raised.
C12_ScenarioC ==
    (prog \in NotebookPrograms /\ fs = "absent") =>
       /\ ~raised
       /\ CallsOf(AfterEnsurePath) = {}
       /\ Len(ops) >= EnsuredAt(prog) =>
             /\ acc = IF prog = "process_either"
                      THEN Left(PyStr("is not a valid file")) ELSE fail
             /\ Cardinality(CallsOf({"ensure_path", "ensure_path_either"})) = 1
             /\ Len(calls) = 2

\* The either pipeline ran to its end on "not a path".
C12_Witness ==
    /\ prog = "process_either" /\ fs = "absent" /\ x0 = PyStr("not a path")
    /\ Finished
    /\ acc = Left(PyStr("is not a valid file"))
    /\ calls[2].fn = "ensure_path_either"

\* The Perhaps pipeline ran to its end on "not a path".
C12_WitnessPerhaps ==
    /\ prog = "process_and_then" /\ fs = "absent" /\ x0 = PyStr("not a path")
    /\ Finished
    /\ acc = fail

----------------------------------------------------------------------------
\* C13: scenario B: the bind pipeline on an existing file whose content is
\* not valid YAML returns a Failure whose payload is present, is a non-empty
\* string and identifies the parse error ("invalid yaml: " followed by the
\* parser's message); that Failure is what parse_yaml returned, it reaches the
\* end of the chain unchanged, no exception is raised, and load_person is not
\* invoked (in the Perhaps pipelines neither, though their Failure is the
\* payload-free fail).
C13_ScenarioB ==
    (prog \in NotebookPrograms /\ fs = "invalid") =>
       /\ ~raised
       /\ CallsOf({"load_person", "load_person_either", "from_config"}) = {}
       /\ (prog = "process_either" /\ Len(ops) >= 4) =>
             /\ IsPerhaps(acc) /\ ~success(acc)
             /\ IsStr(value(acc))
             /\ value(acc).s # ""
             /\ value(acc).s = "invalid yaml: " \o YamlErrorText
             /\ calls[Len(calls)].fn = "parse_yaml_either"
             /\ calls[Len(calls)].ret = acc
             /\ calls[Len(calls) - 1].fn = "safe_load"
             /\ calls[Len(calls) - 1].raised
       /\ (prog = "process_and_then" /\ Len(ops) >= 4) => acc = fail

\* The either pipeline ran to its end on example_invalid.yaml.
C13_Witness ==
    /\ prog = "process_either" /\ fs = "invalid"
    /\ x0 = PyStr("example_invalid.yaml")
    /\ Finished
    /\ acc = Left(PyStr("invalid yaml: " \o YamlErrorText))

----------------------------------------------------------------------------
\* The Either-returning step functions.
EitherSteps ==
    {"ensure_path_predicate", "load_file", "ensure_path_either",
     "read_content_either", "parse_yaml_either", "load_person_either"}

C17_WitnessBoth ==
    /\ prog = "readme_kleisli" /\ fs = "valid" /\ Finished
    /\ Len(calls) = 4
    /\ calls[2].fn = "ensure_path_predicate" /\ calls[4].fn = "load_file"
    /\ ~success(acc) /\ value(acc).type = "AttributeError"

----------------------------------------------------------------------------
\* The README's process(path), in both of its forms.
ReadmePrograms == {"readme_process_inside_collapse", "readme_process_and_then"}

\* C18: the README's Perhaps pipeline, succeed(path).inside(ensure_path)
\* .collapse().inside(read_file).collapse().inside(parse_content).collapse()
\* and its and_then form, run on an existing, readable, well-formed file runs
\* all three steps to completion and evaluates to the parsed content of the
\* file: no exception is raised on the way, and at the end each step has been
\* called once and the value is the parsed content (bare or as a Success).
C18_ReadmePipelineCompletes ==
    (prog \in ReadmePrograms /\ fs = "valid") =>
       /\ ~raised
       /\ Finished =>
             /\ acc \in {Config, succeed(Config)}
             /\ Cardinality(CallsOf({"ensure_path_readme"})) = 1
             /\ Cardinality(CallsOf({"read_file"})) = 1
             /\ Cardinality(CallsOf({"parse_content"})) = 1

----------------------------------------------------------------------------
\* C15: immutability: inside, collapse and and_then never change the success
\* or value field of the instance they are called on, nor of the shared fail;
\* after any sequence of these operations every Perhaps constructed before
\* still has the fields it was constructed with.  Every step leaves every
\* existing instance as it was (new instances are only added), and the first
\* instance, fail, is always Perhaps(None, False).
C15_Immutable ==
    /\ [][\A o \in 1..Len(heap) : Len(heap') >= o /\ heap'[o] = heap[o]]_vars
    /\ [](Len(heap) >= 1 => heap[1] = FailObj)

\* inside(times_10) was applied to the instance made by succeed(2): a new
\* instance holds 20 and the first still holds 2.
C15_Witness ==
    /\ Len(ops) >= 2
    /\ ops[1].op = "succeed"
    /\ ops[2].op = "inside" /\ ops[2].fn = "times_10" /\ ops[2].self = 2
    /\ Len(heap) >= 3
    /\ heap[2] = [value |-> Plain(2), success |-> TRUE]
    /\ heap[3] = [value |-> Plain(20), success |-> TRUE]

\* and_then(even) was applied to fail itself and to an odd Success.
C15_WitnessFail ==
    /\ Len(ops) = 3
    /\ ops[2].op = "and_then" /\ ops[2].self = 1
    /\ ops[3].op = "and_then" /\ ops[3].fn = "even" /\ ops[3].self = 2
    /\ heap[2].value = Plain(1)
    /\ acc = FailRef

----------------------------------------------------------------------------
\* The notebook's two Perhaps forms of process(path).
PerhapsPrograms == {"process_inside_collapse", "process_and_then"}

\* C21: in the demonstration pipeline the file-read step is wrapped in
\* attempt: when reading the file raises after ensure_path has succeeded,
\* process(path) returns a Failure and no exception escapes the pipeline; for
\* every path and file state process returns a Perhaps value.
C21_ReadIsAttempted ==
    prog \in PerhapsPrograms =>
       /\ ~raised
       /\ Finished => IsPerhaps(acc)
       /\ (Finished /\ fs = "unreadable") => ~success(acc)

----------------------------------------------------------------------------
\* The Perhaps nested i - 1 levels inside v (v itself for i = 1).
Nested(v, i) == [v EXCEPT !.tags = SubSeq(v.tags, i, Len(v.tags))]

\* Every Failure in v, at the top level or nested as a payload, is fail.
OnlySentinelFailures(v) ==
    \A i \in 1..Len(v.tags) : ~v.tags[i] => Nested(v, i) = fail

\* C22: failure-sentinel invariant: starting from succeed(v) and fail, after
\* any sequence of inside, collapse, and_then and attempt applications every
\* Failure that arises, at the top level or nested as a payload, equals the
\* shared fail (success = False, value = None): in the value of the
\* expression, in every intermediate value and in everything a function was
\* given or returned.
C22_OnlySentinelFailures ==
    /\ OnlySentinelFailures(acc)
    /\ \A i \in 1..Len(ops) : OnlySentinelFailures(ops[i].self)
    /\ \A k \in 1..Len(calls) :
          OnlySentinelFailures(calls[k].arg) /\ OnlySentinelFailures(calls[k].ret)

\* attempt(f, x) caught an exception and the expression went on: its value is
\* a Success holding fail.
C22_Witness ==
    /\ Len(ops) = 2
    /\ ops[1].op = "attempt" /\ calls[1].raised
    /\ ops[2].op = "succeed"
    /\ acc = succeed(fail)

\* A function returned fail inside inside: Success(Failure), then collapsed.
C22_WitnessNested ==
    /\ Len(ops) = 3
    /\ ops[2].op = "inside" /\ ops[2].fn = "even"
    /\ ops[3].self = succeed(fail)
    /\ ops[3].op = "collapse"
    /\ acc = fail

====
